---- MODULE Spec2Model ----
(***************************************************************************)
(* Model of the readability CLI (src/src/main.rs): main() loads a          *)
(* frequency dictionary into a weight table, reads a text, tokenizes it,   *)
(* averages the weights of the tokens and prints the score.                *)
(*                                                                         *)
(* Strings are sequences of one-character strings.  An f64 is an exact     *)
(* rational in lowest terms, or NaN, or +inf: IEEE rounding error is not   *)
(* modelled, the special values of a division by zero are.                 *)
(***************************************************************************)
EXTENDS Integers, Sequences, FiniteSets, TLC

(* ------------------------------ bounds --------------------------------- *)
\* longest dictionary (entries of the top-level array)
MaxDictLen == 2
\* largest raw count in a dictionary entry
MaxCount == 2
\* largest --top-dict-entries
MaxTopK == 2
\* largest --top-text-words
MaxTopN == 2
\* longest input text of a whole run, in characters
MaxTextLen == 3
\* longest input text given to the tokenizer alone
MaxTokTextLen == 5

(* ------------------------------ characters ----------------------------- *)
LowerSeq == << "a","b","c","d","e","f","g","h","i","j","k","l","m",
               "n","o","p","q","r","s","t","u","v","w","x","y","z" >>
UpperSeq == << "A","B","C","D","E","F","G","H","I","J","K","L","M",
               "N","O","P","Q","R","S","T","U","V","W","X","Y","Z" >>
LowerLetters == { LowerSeq[j] : j \in DOMAIN LowerSeq }
UpperLetters == { UpperSeq[j] : j \in DOMAIN UpperSeq }

\* the regex class [A-Za-z]
IsLetter(c) == c \in LowerLetters \cup UpperLetters

\* u8/char to_ascii_lowercase
ToLowerChar(c) ==
    IF c \in UpperLetters
    THEN LowerSeq[CHOOSE j \in DOMAIN UpperSeq : UpperSeq[j] = c]
    ELSE c

\* str::to_ascii_lowercase
ToAsciiLowercase(s) == [j \in DOMAIN s |-> ToLowerChar(s[j])]

\* the characters input texts are drawn from: a lowercase letter, an
\* uppercase letter, the apostrophe and a separator
TextChars == { "a", "B", "'", " " }

RECURSIVE SeqsUpTo(_, _)
SeqsUpTo(S, n) ==
    IF n = 0 THEN { << >> }
    ELSE LET shorter == SeqsUpTo(S, n - 1)
         IN  shorter \cup { Append(s, x) : s \in shorter, x \in S }

(* ------------------------------ Option<usize> -------------------------- *)
None == [some |-> FALSE, val |-> 0]
Some(n) == [some |-> TRUE, val |-> n]
OptUpTo(n) == { None } \cup { Some(j) : j \in 0..n }

Min(a, b) == IF a <= b THEN a ELSE b

(* ------------------------------ f64 ------------------------------------ *)
RECURSIVE Gcd(_, _)
Gcd(a, b) == IF b = 0 THEN a ELSE Gcd(b, a % b)

NaN == [k |-> "nan", num |-> 0, den |-> 1]
Inf == [k |-> "inf", num |-> 0, den |-> 1]
\* the finite value n/d (n >= 0, d > 0), in lowest terms
Fin(n, d) == LET g == Gcd(n, d) IN [k |-> "fin", num |-> n \div g, den |-> d \div g]

\* `c as f64`
U64ToF64(c) == Fin(c, 1)

\* f64 `/` on non-negative operands
F64Div(x, y) ==
    IF x.k = "nan" \/ y.k = "nan" THEN NaN
    ELSE IF x.k = "inf" THEN (IF y.k = "inf" THEN NaN ELSE Inf)
    ELSE IF y.k = "inf" THEN Fin(0, 1)
    ELSE IF y.num = 0 THEN (IF x.num = 0 THEN NaN ELSE Inf)
    ELSE Fin(x.num * y.den, x.den * y.num)

\* f64 `+` on non-negative operands
F64Add(x, y) ==
    IF x.k = "nan" \/ y.k = "nan" THEN NaN
    ELSE IF x.k = "inf" \/ y.k = "inf" THEN Inf
    ELSE Fin(x.num * y.den + y.num * x.den, x.den * y.den)

\* comparisons of the mathematical values; every comparison with NaN is false
F64Le(x, y) ==
    /\ x.k # "nan" /\ y.k # "nan"
    /\ \/ y.k = "inf"
       \/ x.k = "fin" /\ y.k = "fin" /\ x.num * y.den <= y.num * x.den
F64Zero == Fin(0, 1)
F64One == Fin(1, 1)
InUnitInterval(x) == F64Le(F64Zero, x) /\ F64Le(x, F64One)

(* ------------------------------ serde_json::Value ---------------------- *)
JNull == [kind |-> "null", s |-> << >>, n |-> 0, a |-> << >>]
JObject == [kind |-> "object", s |-> << >>, n |-> 0, a |-> << >>]
JNegative == [kind |-> "negative", s |-> << >>, n |-> 1, a |-> << >>]
JFloat == [kind |-> "float", s |-> << >>, n |-> 1, a |-> << >>]
JStr(w) == [kind |-> "string", s |-> w, n |-> 0, a |-> << >>]
JU64(c) == [kind |-> "u64", s |-> << >>, n |-> c, a |-> << >>]
JArr(vs) == [kind |-> "array", s |-> << >>, n |-> 0, a |-> vs]

\* Value::as_array / as_str / as_u64 return Some exactly for these kinds
IsArray(v) == v.kind = "array"
IsStr(v) == v.kind = "string"
IsU64(v) == v.kind = "u64"

(* ------------------------------ inputs --------------------------------- *)
DictWords == { << "a" >>, << "b" >> }

WellFormedEntries == { JArr(<< JStr(w), JU64(c) >>) : w \in DictWords, c \in 0..MaxCount }
\* arrays of more than two elements
LongEntries == { JArr(<< JStr(w), JU64(1), JNull >>) : w \in DictWords }
MalformedEntries ==
    { JNull,
      JArr(<< >>),
      JArr(<< JStr(<< "a" >>) >>),
      JArr(<< JU64(1), JU64(1) >>),
      JArr(<< JStr(<< "a" >>), JNegative >>),
      JArr(<< JStr(<< "a" >>), JFloat >>),
      JArr(<< JNull, JNegative >>) }
DictEntries == WellFormedEntries \cup LongEntries \cup MalformedEntries

\* what File::open + read_to_string + serde_json::from_str can meet
DictFiles ==
    { [state |-> "missing", value |-> JNull],
      [state |-> "garbage", value |-> JNull],
      [state |-> "json", value |-> JObject] }
    \cup { [state |-> "json", value |-> JArr(es)] : es \in SeqsUpTo(DictEntries, MaxDictLen) }

TextFiles ==
    { [state |-> "missing", content |-> << >>] }
    \cup { [state |-> "ok", content |-> t] : t \in SeqsUpTo(TextChars, MaxTextLen) }

(* ------------------------------ errors --------------------------------- *)
NoError == "none"
ErrOpenDict == "cannot open dictionary"
ErrInvalidJson == "invalid JSON"
ErrNotTopArray == "expected a top-level JSON array"
ErrFirstNotString == "first element is not a string"
ErrSecondNotNumber == "second element is not a number"
ErrLenLt2 == "dictionary array element has length < 2"
ErrNotArrayOfTwo == "dictionary element is not an array of two values"
ErrEmptyDict == "dictionary is empty"
ErrReadText == "cannot read input text"
ErrNoWords == "no words found to score"

FormatErrors == { ErrInvalidJson, ErrNotTopArray, ErrFirstNotString,
                  ErrSecondNotNumber, ErrLenLt2, ErrNotArrayOfTwo }

(* ------------------------------ load_frequency_dict -------------------- *)
NoItem == [w |-> << >>, c |-> 0]

\* one iteration of the loop over the top-level array: Ok((word, count)) or
\* the error it bails with
ParseEntry(v) ==
    IF IsArray(v)
    THEN IF Len(v.a) >= 2
         THEN IF ~IsStr(v.a[1]) THEN [err |-> ErrFirstNotString, item |-> NoItem]
              ELSE IF ~IsU64(v.a[2]) THEN [err |-> ErrSecondNotNumber, item |-> NoItem]
              ELSE [err |-> NoError, item |-> [w |-> v.a[1].s, c |-> v.a[2].n]]
         ELSE [err |-> ErrLenLt2, item |-> NoItem]
    ELSE [err |-> ErrNotArrayOfTwo, item |-> NoItem]

\* a load that ignores top_k
TruncateIgnored(its, top_k) == its

\* items.truncate(k.min(items.len())) under `if let Some(k) = top_k`
Truncate(its, top_k) ==
    IF top_k.some THEN SubSeq(its, 1, Min(top_k.val, Len(its))) ELSE its

\* items.iter().map(|(_, c)| *c).max().unwrap_or(1)
MaxCountOf(its) ==
    IF its = << >> THEN 1
    ELSE CHOOSE m \in { its[j].c : j \in DOMAIN its } :
             \A j \in DOMAIN its : its[j].c <= m

EmptyMap == [w \in {} |-> F64Zero]

\* an insertion that keeps the value a key already has
InsertKeepFirst(m, w, x) ==
    [key \in DOMAIN m \cup {w} |-> IF key \in DOMAIN m THEN m[key] ELSE x]

\* HashMap::insert
Insert(m, w, x) == [key \in DOMAIN m \cup {w} |-> IF key = w THEN x ELSE m[key]]

\* the loop `for (w, c) in items { map.insert(w, c as f64 / max_count_f) }`
RECURSIVE InsertAll(_, _, _)
InsertAll(m, its, max_count_f) ==
    IF its = << >> THEN m
    ELSE InsertAll(Insert(m, Head(its).w, F64Div(U64ToF64(Head(its).c), max_count_f)),
                   Tail(its), max_count_f)

BuildMap(its) == InsertAll(EmptyMap, its, U64ToF64(MaxCountOf(its)))

(* ------------------------------ tokenize_english_words ----------------- *)
\* [A-Za-z]+ from position p, greedy: the position just after the run
RECURSIVE LetterRunEnd(_, _)
LetterRunEnd(t, p) ==
    IF p <= Len(t) /\ IsLetter(t[p]) THEN LetterRunEnd(t, p + 1) ELSE p

\* the regex [A-Za-z]+ alone, without the apostrophe group
MatchEndLettersOnly(t, p) == LetterRunEnd(t, p)

\* the regex [A-Za-z]+(?:'[A-Za-z]+)? anchored at p: the position just after
\* the match, or p when there is no match at p
MatchEnd(t, p) ==
    LET e1 == LetterRunEnd(t, p)
    IN  IF e1 = p THEN p
        ELSE IF e1 <= Len(t) /\ t[e1] = "'" /\ LetterRunEnd(t, e1 + 1) > e1 + 1
             THEN LetterRunEnd(t, e1 + 1)
             ELSE e1

\* Regex::find_iter from position p: the leftmost matches, each search
\* starting where the previous match ended
RECURSIVE FindIter(_, _)
FindIter(t, p) ==
    IF p > Len(t) THEN << >>
    ELSE LET e == MatchEnd(t, p)
         IN  IF e = p THEN FindIter(t, p + 1)
             ELSE << [start |-> p, end |-> e] >> \o FindIter(t, e)

tokenize_english_words(t) ==
    LET ms == FindIter(t, 1)
    IN  [j \in DOMAIN ms |-> ToAsciiLowercase(SubSeq(t, ms[j].start, ms[j].end - 1))]

(* ------------------------------ compute_readability -------------------- *)
NoScore == [some |-> FALSE, val |-> F64Zero]
SomeScore(x) == [some |-> TRUE, val |-> x]

\* iter.take(n) under `if let Some(n) = top_text_words`
Take(toks, top_n) ==
    IF top_n.some THEN SubSeq(toks, 1, Min(top_n.val, Len(toks))) ELSE toks

\* dict_weights.get(w).copied().unwrap_or(0.0)
Lookup(d, w) == IF w \in DOMAIN d THEN d[w] ELSE F64Zero

\* a loop body that leaves a token absent from the table out of the count
ScoreStepSkipAbsent(acc, d, w) ==
    IF w \in DOMAIN d
    THEN [sum |-> F64Add(acc.sum, d[w]), cnt |-> acc.cnt + 1]
    ELSE acc

\* the body of `for w in iter`
ScoreStep(acc, d, w) ==
    [sum |-> F64Add(acc.sum, Lookup(d, w)), cnt |-> acc.cnt + 1]

RECURSIVE ScoreLoop(_, _, _)
ScoreLoop(acc, d, ws) ==
    IF ws = << >> THEN acc ELSE ScoreLoop(ScoreStep(acc, d, Head(ws)), d, Tail(ws))

\* a scorer that divides whatever the count is
compute_readability_unguarded(toks, dict_weights, top_text_words) ==
    LET r == ScoreLoop([sum |-> F64Zero, cnt |-> 0], dict_weights, Take(toks, top_text_words))
    IN  SomeScore(F64Div(r.sum, U64ToF64(r.cnt)))

compute_readability(toks, dict_weights, top_text_words) ==
    LET r == ScoreLoop([sum |-> F64Zero, cnt |-> 0], dict_weights, Take(toks, top_text_words))
    IN  IF r.cnt = 0 THEN NoScore ELSE SomeScore(F64Div(r.sum, U64ToF64(r.cnt)))

(* ------------------------------ println!("{:.6}") ---------------------- *)
DigitSeq == << "0", "1", "2", "3", "4", "5", "6", "7", "8", "9" >>

RECURSIVE Decimal(_)
Decimal(n) ==
    IF n < 10 THEN << DigitSeq[n + 1] >>
    ELSE Append(Decimal(n \div 10), DigitSeq[(n % 10) + 1])

\* the last `width` decimal digits of n, zero padded
RECURSIVE Padded(_, _)
Padded(n, width) ==
    IF width = 0 THEN << >>
    ELSE Append(Padded(n \div 10, width - 1), DigitSeq[(n % 10) + 1])

\* n/d rounded to an integer, ties to even
RoundHalfEven(n, d) ==
    LET q == n \div d
        r == n % d
    IN  IF 2 * r < d THEN q
        ELSE IF 2 * r > d THEN q + 1
        ELSE IF q % 2 = 0 THEN q ELSE q + 1

\* format!("{:.6}", x)
Fmt6(x) ==
    IF x.k = "nan" THEN << "N", "a", "N" >>
    ELSE IF x.k = "inf" THEN << "i", "n", "f" >>
    ELSE LET scale == 1000000
             m == RoundHalfEven(x.num * scale, x.den)
         IN  Decimal(m \div scale) \o << "." >> \o Padded(m % scale, 6)

(* ------------------------------ state ---------------------------------- *)
VARIABLES
    pc,       \* position in main / load_frequency_dict
    args,     \* Args: top_text_words, top_dict_entries
    json,     \* load_frequency_dict: the dictionary file as read and parsed
    items,    \* load_frequency_dict: Vec<(String, u64)>
    map,      \* load_frequency_dict: the HashMap being returned
    err,      \* the anyhow error propagating to main, NoError if none
    dict,     \* main: the weight table
    text,     \* main: the input text
    tokens,   \* main: the tokens of the text
    score,    \* main: Option<f64> returned by compute_readability
    stdout,   \* lines printed
    status    \* "running", "success" (exit 0) or "failure" (non-zero exit)

vars == << pc, args, json, items, map, err, dict, text, tokens, score, stdout, status >>

Unread == [state |-> "unread", value |-> JNull]

Init ==
    /\ pc = "load_read"
    /\ args \in [top_text_words : OptUpTo(MaxTopN), top_dict_entries : OptUpTo(MaxTopK)]
    /\ json = Unread
    /\ items = << >>
    /\ map = EmptyMap
    /\ err = NoError
    /\ dict = EmptyMap
    /\ text = << >>
    /\ tokens = << >>
    /\ score = NoScore
    /\ stdout = << >>
    /\ status = "running"

(* ------------------------------ load_frequency_dict, step by step ------ *)
\* File::open, read_to_string, serde_json::from_str, json.as_array
LoadReadJson ==
    /\ pc = "load_read"
    /\ \E f \in DictFiles :
         /\ json' = f
         /\ err' = IF f.state = "missing" THEN ErrOpenDict
                   ELSE IF f.state = "garbage" THEN ErrInvalidJson
                   ELSE IF ~IsArray(f.value) THEN ErrNotTopArray
                   ELSE NoError
         /\ pc' = IF err' = NoError THEN "load_parse" ELSE "load_ret"
    /\ UNCHANGED << args, items, map, dict, text, tokens, score, stdout, status >>

\* a loop that stops after the first top_k entries
LoopDoneAtTopK ==
    Len(items) = IF args.top_dict_entries.some
                 THEN Min(args.top_dict_entries.val, Len(json.value.a))
                 ELSE Len(json.value.a)

\* `for v in arr` has visited every element of arr
LoopDone == Len(items) = Len(json.value.a)

\* one iteration of `for v in arr`
LoadParseEntry ==
    /\ pc = "load_parse"
    /\ ~LoopDone
    /\ LET r == ParseEntry(json.value.a[Len(items) + 1])
       IN  IF r.err = NoError
           THEN /\ items' = Append(items, r.item)
                /\ UNCHANGED << pc, err >>
           ELSE /\ err' = r.err
                /\ pc' = "load_ret"
                /\ UNCHANGED items
    /\ UNCHANGED << args, json, map, dict, text, tokens, score, stdout, status >>

\* the loop is over: truncate to top_k
LoadTruncate ==
    /\ pc = "load_parse"
    /\ LoopDone
    /\ items' = Truncate(items, args.top_dict_entries)
    /\ pc' = "load_check_empty"
    /\ UNCHANGED << args, json, map, err, dict, text, tokens, score, stdout, status >>

\* a load without the `items.is_empty()` check
LoadCheckEmptyOmitted ==
    /\ pc = "load_check_empty"
    /\ pc' = "load_build"
    /\ UNCHANGED << args, json, items, map, err, dict, text, tokens, score, stdout, status >>

\* if items.is_empty() { bail!(..) }
LoadCheckEmpty ==
    /\ pc = "load_check_empty"
    /\ IF items = << >>
       THEN /\ err' = ErrEmptyDict
            /\ pc' = "load_ret"
       ELSE /\ pc' = "load_build"
            /\ UNCHANGED err
    /\ UNCHANGED << args, json, items, map, dict, text, tokens, score, stdout, status >>

\* max_count, the insertion loop (which consumes items), Ok(map)
LoadBuildMap ==
    /\ pc = "load_build"
    /\ map' = BuildMap(items)
    /\ items' = << >>
    /\ pc' = "load_ret"
    /\ UNCHANGED << args, json, err, dict, text, tokens, score, stdout, status >>

(* ------------------------------ main ----------------------------------- *)
\* let dict = load_frequency_dict(..)?; the callee's locals are dropped
MainLoadDict ==
    /\ pc = "load_ret"
    /\ IF err = NoError
       THEN /\ dict' = map
            /\ pc' = "read_text"
            /\ UNCHANGED status
       ELSE /\ status' = "failure"
            /\ pc' = "done"
            /\ UNCHANGED dict
    /\ json' = Unread
    /\ items' = << >>
    /\ map' = EmptyMap
    /\ UNCHANGED << args, err, text, tokens, score, stdout >>

\* let text = read_input_text(..)?
MainReadText ==
    /\ pc = "read_text"
    /\ \E f \in TextFiles :
         IF f.state = "ok"
         THEN /\ text' = f.content
              /\ pc' = "tokenize"
              /\ UNCHANGED << err, status >>
         ELSE /\ err' = ErrReadText
              /\ status' = "failure"
              /\ pc' = "done"
              /\ UNCHANGED text
    /\ UNCHANGED << args, json, items, map, dict, tokens, score, stdout >>

\* let tokens = tokenize_english_words(&text)
MainTokenize ==
    /\ pc = "tokenize"
    /\ tokens' = tokenize_english_words(text)
    /\ pc' = "compute"
    /\ UNCHANGED << args, json, items, map, err, dict, text, score, stdout, status >>

\* compute_readability(&tokens, &dict, args.top_text_words)
MainCompute ==
    /\ pc = "compute"
    /\ score' = compute_readability(tokens, dict, args.top_text_words)
    /\ pc' = "score_ret"
    /\ UNCHANGED << args, json, items, map, err, dict, text, tokens, stdout, status >>

\* .ok_or_else(|| anyhow!(..))?
MainScore ==
    /\ pc = "score_ret"
    /\ IF score.some
       THEN /\ pc' = "print"
            /\ UNCHANGED << err, status >>
       ELSE /\ err' = ErrNoWords
            /\ status' = "failure"
            /\ pc' = "done"
    /\ UNCHANGED << args, json, items, map, dict, text, tokens, score, stdout >>

\* println!("{:.6}", score); Ok(())
MainPrint ==
    /\ pc = "print"
    /\ stdout' = Append(stdout, Fmt6(score.val))
    /\ status' = "success"
    /\ pc' = "done"
    /\ UNCHANGED << args, json, items, map, err, dict, text, tokens, score >>

Next ==
    \/ LoadReadJson
    \/ LoadParseEntry
    \/ LoadTruncate
    \/ LoadCheckEmpty
    \/ LoadBuildMap
    \/ MainLoadDict
    \/ MainReadText
    \/ MainTokenize
    \/ MainCompute
    \/ MainScore
    \/ MainPrint

Spec == Init /\ [][Next]_vars

(* ------------------------------ the tokenizer alone -------------------- *)
\* tokenize_english_words is a pure function of the text: every text up to
\* MaxTokTextLen characters, the other state as a run leaves it before the call
InitTok ==
    /\ pc = "tokenize"
    /\ args = [top_text_words |-> None, top_dict_entries |-> None]
    /\ json = Unread
    /\ items = << >>
    /\ map = EmptyMap
    /\ err = NoError
    /\ dict = BuildMap(<< [w |-> << "a" >>, c |-> 1] >>)
    /\ text \in SeqsUpTo(TextChars, MaxTokTextLen)
    /\ tokens = << >>
    /\ score = NoScore
    /\ stdout = << >>
    /\ status = "running"

NextTok == MainTokenize

SpecTok == InitTok /\ [][NextTok]_vars

(* ====================== properties of load_frequency_dict ============== *)
AtLoadRet == pc = "load_ret"
LoadOk == AtLoadRet /\ err = NoError
TopK == args.top_dict_entries
\* the entries of the source sequence (when the file holds a JSON array)
Src == json.value.a
SrcIsArray == json.state = "json" /\ json.value.kind = "array"
\* the number of entries kept by the truncation
Kept == IF TopK.some /\ TopK.val < Len(Src) THEN TopK.val ELSE Len(Src)
SrcWord(j) == Src[j].a[1].s
SrcCount(j) == Src[j].a[2].n
\* m is the largest count among the kept entries
IsKeptMax(m) ==
    /\ \E j \in 1..Kept : SrcCount(j) = m
    /\ \A j \in 1..Kept : SrcCount(j) <= m
\* the f64 quotient c / m written out: 0/0 is NaN
Quot(c, m) == IF m = 0 THEN NaN ELSE Fin(c, m)

\* C1: for every dictionary and K for which the load succeeds, every weight of
\* the returned table lies in [0,1] and the largest weight is exactly 1.0.
C1_WeightsNormalized ==
    LoadOk =>
        /\ \A w \in DOMAIN map : InUnitInterval(map[w])
        /\ \E w \in DOMAIN map : map[w] = F64One

\* C4: when the load succeeds, the keys of the table are exactly the words of
\* the first min(K, length) source entries, and every weight is the count of a
\* kept entry with that word divided by the largest count among the kept
\* entries: entries beyond K influence neither the keys, max_count nor a weight.
C4_TruncationKeepsPrefix ==
    LoadOk =>
        /\ DOMAIN map = { SrcWord(j) : j \in 1..Kept }
        /\ \E m \in 0..MaxCount :
             /\ IsKeptMax(m)
             /\ \A w \in DOMAIN map :
                  \E j \in 1..Kept : SrcWord(j) = w /\ map[w] = Quot(SrcCount(j), m)

C4_Witness ==
    /\ LoadOk
    /\ TopK = Some(1)
    /\ Len(Src) = 2
    /\ SrcWord(2) # SrcWord(1)
    /\ SrcCount(2) > SrcCount(1)
    /\ SrcCount(1) > 0
    /\ map[SrcWord(1)] = F64One

\* C5: when the parse succeeded and the truncation keeps no entry (empty
\* source, or K = 0), the load fails with the "empty dictionary" error; the
\* load never returns an empty table; and neither a run with that error nor a
\* run with K = 0 prints anything or exits with success.
C5_EmptyDictionaryFails ==
    /\ (AtLoadRet /\ SrcIsArray /\ err \notin FormatErrors /\ Kept = 0)
           => (err = ErrEmptyDict /\ map = EmptyMap)
    /\ LoadOk => DOMAIN map # {}
    /\ pc \notin { "load_read", "load_parse", "load_truncate", "load_check_empty",
                   "load_build", "load_ret", "done" } => DOMAIN dict # {}
    /\ (err = ErrEmptyDict \/ TopK = Some(0)) => (stdout = << >> /\ status # "success")
    /\ (pc = "done" /\ err = ErrEmptyDict) => status = "failure"

C5_Witness ==
    /\ AtLoadRet
    /\ TopK = Some(0)
    /\ Len(Src) = 2
    /\ err = ErrEmptyDict

\* what the validation loop rejects in an entry
Rejected(e) ==
    \/ e.kind # "array"
    \/ Len(e.a) < 2
    \/ e.a[1].kind # "string"
    \/ e.a[2].kind # "u64"
\* an entry that is not a two-element [string, non-negative integer] array
BadShape(e) == Rejected(e) \/ Len(e.a) # 2

EntryErrors == { ErrFirstNotString, ErrSecondNotNumber, ErrLenLt2, ErrNotArrayOfTwo }

\* C7: the load fails with a format error and returns no table when the top
\* level is not a sequence, or some entry is not a two-element array (fewer or
\* more than two elements included), or its first element is not a string, or
\* its second is not a non-negative integer; the four violations have their
\* own errors.
C7_MalformedRejected ==
    (AtLoadRet /\ json.state = "json") =>
        /\ json.value.kind # "array" => (err = ErrNotTopArray /\ map = EmptyMap)
        /\ (json.value.kind = "array" /\ \E j \in DOMAIN Src : BadShape(Src[j]))
               => (err \in EntryErrors /\ map = EmptyMap)
        /\ err = ErrNotTopArray => json.value.kind # "array"
        /\ err \in { ErrLenLt2, ErrNotArrayOfTwo } =>
               \E j \in DOMAIN Src : Src[j].kind # "array" \/ Len(Src[j].a) # 2
        /\ err = ErrFirstNotString =>
               \E j \in DOMAIN Src : Src[j].kind = "array" /\ Len(Src[j].a) >= 1
                                      /\ Src[j].a[1].kind # "string"
        /\ err = ErrSecondNotNumber =>
               \E j \in DOMAIN Src : Src[j].kind = "array" /\ Len(Src[j].a) >= 2
                                      /\ Src[j].a[2].kind # "u64"

\* C9: when the load succeeds, the weight of every key is the count of the
\* LAST kept entry with that word divided by the largest count among all kept
\* entries, earlier occurrences of the word included in that maximum.
C9_LastWriteWins ==
    LoadOk =>
        \A w \in DOMAIN map :
            \E j \in 1..Kept, m \in 0..MaxCount :
                /\ SrcWord(j) = w
                /\ \A i \in (j + 1)..Kept : SrcWord(i) # w
                /\ IsKeptMax(m)
                /\ map[w] = Quot(SrcCount(j), m)

C9_Witness ==
    /\ LoadOk
    /\ Len(Src) = 2
    /\ Kept = 2
    /\ SrcWord(1) = SrcWord(2)
    /\ SrcCount(1) = 2
    /\ SrcCount(2) = 1
    /\ map[SrcWord(1)] = Fin(1, 2)

\* C10: an entry the validation rejects makes the load fail with an entry
\* format error wherever it stands, beyond K included, and with K = 0 the
\* error is the format error, not "empty dictionary".
C10_ValidationBeforeTruncation ==
    (AtLoadRet /\ SrcIsArray /\ \E j \in DOMAIN Src : Rejected(Src[j]))
        => err \in EntryErrors

C10_Witness ==
    /\ AtLoadRet
    /\ SrcIsArray
    /\ TopK = Some(0)
    /\ Len(Src) = 2
    /\ ~Rejected(Src[1])
    /\ Rejected(Src[2])
    /\ err \in EntryErrors

(* ====================== properties of compute_readability ============== *)
TopN == args.top_text_words
\* the number of tokens considered: the first min(N, length), or all
Considered == IF TopN.some /\ TopN.val < Len(tokens) THEN TopN.val ELSE Len(tokens)
\* the weight token j contributes
Contribution(j) == IF tokens[j] \in DOMAIN dict THEN dict[tokens[j]] ELSE F64Zero

\* the contributions of tokens 1..n added up from the last one down
RECURSIVE SumDown(_)
SumDown(n) == IF n = 0 THEN F64Zero ELSE F64Add(Contribution(n), SumDown(n - 1))

\* C2: when the considered prefix is non-empty, compute_readability returns
\* the sum of the weights of exactly the prefix tokens (0.0 for a token that
\* is no key of the table) divided by the number of prefix tokens.
C2_ScoreIsMeanOfPrefix ==
    (pc = "score_ret" /\ Considered > 0) =>
        /\ score.some
        /\ score.val = F64Div(SumDown(Considered), Fin(Considered, 1))

C2_Witness ==
    /\ pc = "score_ret"
    /\ TopN = None
    /\ Len(tokens) = 2
    /\ tokens[1] \in DOMAIN dict
    /\ dict[tokens[1]] = F64One
    /\ tokens[2] \notin DOMAIN dict
    /\ score = SomeScore(Fin(1, 2))

\* C6: compute_readability returns "no score" exactly when no token is
\* considered; main turns it into the "no words found" error, prints nothing
\* and fails; a text without ASCII letters has no tokens.
C6_NoScoreIffNothingConsidered ==
    /\ pc = "score_ret" => (score.some <=> Considered > 0)
    /\ (pc = "done" /\ err \in { NoError, ErrNoWords }) =>
           /\ err = ErrNoWords <=> Considered = 0
           /\ err = ErrNoWords => (stdout = << >> /\ status = "failure")
           /\ err = NoError => (Len(stdout) = 1 /\ status = "success")
    /\ (pc \in { "compute", "score_ret", "print" } /\ \A j \in DOMAIN text : ~IsLetter(text[j]))
           => tokens = << >>

C6_Witness ==
    /\ pc = "done"
    /\ TopN = Some(0)
    /\ Len(tokens) = 2
    /\ err = ErrNoWords
    /\ stdout = << >>

\* C8: every run that succeeds has printed a finite score that lies in [0,1].
C8_PrintedScoreInUnitInterval ==
    status = "success" =>
        /\ score.some
        /\ score.val.k = "fin"
        /\ InUnitInterval(score.val)
        /\ stdout = << Fmt6(score.val) >>

(* ====================== properties of tokenize_english_words =========== *)
Apostrophe == "'"
RefLower(c) ==
    IF \E j \in DOMAIN UpperSeq : UpperSeq[j] = c
    THEN LowerSeq[CHOOSE j \in DOMAIN UpperSeq : UpperSeq[j] = c]
    ELSE c

RECURSIVE Flatten(_)
Flatten(ss) == IF ss = << >> THEN << >> ELSE Head(ss) \o Flatten(Tail(ss))

\* the lowercased letters of t, in order
LettersOf(t) == [j \in DOMAIN SelectSeq(t, IsLetter) |-> RefLower(SelectSeq(t, IsLetter)[j])]

\* the maximal runs of letters of t as spans first..last
RunStarts(t) == { j \in DOMAIN t : IsLetter(t[j]) /\ (j = 1 \/ ~IsLetter(t[j - 1])) }
RunLast(t, s) ==
    CHOOSE e \in s..Len(t) :
        /\ \A j \in s..e : IsLetter(t[j])
        /\ (e = Len(t) \/ ~IsLetter(t[e + 1]))
RunText(t, s) == [j \in 1..(RunLast(t, s) - s + 1) |-> RefLower(t[s + j - 1])]
\* the run that starts at s is followed by one apostrophe and another run
Joined(t, s) ==
    /\ RunLast(t, s) + 2 <= Len(t)
    /\ t[RunLast(t, s) + 1] = Apostrophe
    /\ IsLetter(t[RunLast(t, s) + 2])

\* toks are the tokens of the runs of t that start at or after position p: a
\* run followed by an apostrophe and a run forms one token with it, any other
\* run is a token by itself
RECURSIVE Groups(_, _, _)
Groups(toks, t, p) ==
    LET later == { s \in RunStarts(t) : s >= p }
    IN  IF later = {} THEN toks = << >>
        ELSE LET s == CHOOSE x \in later : \A y \in later : x <= y
             IN  /\ toks # << >>
                 /\ IF Joined(t, s)
                    THEN /\ Head(toks) = RunText(t, s) \o << Apostrophe >>
                                            \o RunText(t, RunLast(t, s) + 2)
                         /\ Groups(Tail(toks), t, RunLast(t, RunLast(t, s) + 2) + 1)
                    ELSE /\ Head(toks) = RunText(t, s)
                         /\ Groups(Tail(toks), t, RunLast(t, s) + 1)

TokenShape(tok) ==
    /\ tok # << >>
    /\ \A j \in DOMAIN tok : tok[j] \in LowerLetters \cup { Apostrophe }
    /\ Cardinality({ j \in DOMAIN tok : tok[j] = Apostrophe }) <= 1
    /\ tok[1] # Apostrophe
    /\ tok[Len(tok)] # Apostrophe

ExampleText ==
    << "H","e","l","l","o",","," ","W","o","r","l","d","!"," ",
       "I","s","n","'","t"," ","i","t"," ","n","i","c","e","?" >>
ExampleTokens ==
    << << "h","e","l","l","o" >>, << "w","o","r","l","d" >>,
       << "i","s","n","'","t" >>, << "i","t" >>, << "n","i","c","e" >> >>

\* C3: the tokens are the lowercased left-to-right matches of a maximal run
\* of letters optionally followed by one apostrophe and another run: every
\* token is non-empty, made of a-z with at most one apostrophe that is neither
\* first nor last; every letter of the text is in exactly one token, in order;
\* every other character is dropped; and the example of the specification.
C3_TokensAreWordSpans ==
    /\ pc = "compute" =>
           /\ \A j \in DOMAIN tokens : TokenShape(tokens[j])
           /\ SelectSeq(Flatten(tokens), LAMBDA c : c # Apostrophe) = LettersOf(text)
           /\ Groups(tokens, text, 1)
    /\ tokenize_english_words(ExampleText) = ExampleTokens

C3_Witness ==
    /\ pc = "compute"
    /\ text = << "a", "'", "B", "'", "a" >>
    /\ tokens = << << "a", "'", "b" >>, << "a" >> >>

====
